---- MODULE Spec2Model ----
(***************************************************************************)
(* A model of the 67dle backend (src/backend/main.py): the word catalog    *)
(* loaded at import time, the daily word selector, the guess scorer and    *)
(* its HTTP handler, and the leaderboard handlers over an external table.  *)
(*                                                                         *)
(* Strings are sequences of one-character strings, so that length,         *)
(* indexing, upper-casing and stripping are computed as Python computes    *)
(* them.  The character written "sz" stands for U+00DF, whose upper-case   *)
(* form in Python is the two characters "SS".                              *)
(***************************************************************************)
EXTENDS Integers, Sequences, FiniteSets, TLC

VARIABLES
    source,      \* what words.json holds when the module is imported
    proc,        \* "boot" | "running" | "crashed": the server process
    WORDS_LIST,  \* main.py:41/43
    WORDS_SET,   \* main.py:45
    now,         \* wall clock in America/New_York, in ticks since ClockOrigin
    resp,        \* the response of the last /validate, /guess, /daily-word-check
    drawn,       \* history: <<date ordinal, instant, word>> of every get_daily_word() return
    configured,  \* SUPABASE_URL and SUPABASE_KEY are both set (main.py:14-15)
    store,       \* rows of the external table "leaderboard", in insertion order
    pc,          \* per request slot: position inside add_to_leaderboard
    entry,       \* per request slot: the LeaderboardEntry body of the request
    today_key,   \* per request slot: the local today_key of the handler
    mine,        \* per request slot: history, id of the row this request inserted
    lb,          \* the leaderboard response sent by the latest step, if it sent one
    posted,      \* history: ids of rows whose POST returned 200 with entries
    sGuess,      \* scorer harness: the guess handed to the scorer
    sTarget,     \* scorer harness: the target handed to the scorer
    sTrace       \* scorer harness: the scorer's steps, <<>> before it ran

gameVars  == <<source, proc, WORDS_LIST, WORDS_SET, resp, drawn>>
boardVars == <<configured, store, pc, entry, today_key, mine, lb, posted>>
boardCore == <<configured, store, pc, entry, today_key, mine, posted>>
scoreVars == <<sGuess, sTarget, sTrace>>
vars == <<source, proc, WORDS_LIST, WORDS_SET, now, resp, drawn,
          configured, store, pc, entry, today_key, mine, lb, posted,
          sGuess, sTarget, sTrace>>

----------------------------------------------------------------------------
(* Bounds of the model *)

MaxWords == 2      \* longest word list drawn for words.json
MaxTick == 3       \* the clock stops advancing after this many ticks
TicksPerDay == 2   \* clock ticks per calendar day
MaxStore == 3      \* rows the leaderboard table may hold

(* Program constants *)

WordLen == 6              \* main.py:103, 114, 122, 128
StartOrdinal == 738886    \* date(2024, 1, 1).toordinal(), main.py:48

----------------------------------------------------------------------------
(* Python str and dict primitives *)

Min(a, b) == IF a <= b THEN a ELSE b

LowerChars == <<"b", "e", "t", "r", "u", "l", "s">>
UpperChars == <<"B", "E", "T", "R", "U", "L", "S">>

\* str.upper() on one character
UpperChar(c) ==
    IF c = "sz" THEN <<"S", "S">>
    ELSE IF \E k \in 1..Len(LowerChars) : LowerChars[k] = c
         THEN <<UpperChars[CHOOSE k \in 1..Len(LowerChars) : LowerChars[k] = c]>>
         ELSE <<c>>

RECURSIVE upper(_)
\* str.upper()
upper(s) == IF s = <<>> THEN <<>> ELSE UpperChar(Head(s)) \o upper(Tail(s))

RECURSIVE lstrip(_)
lstrip(s) == IF s # <<>> /\ Head(s) = " " THEN lstrip(Tail(s)) ELSE s

RECURSIVE rstrip(_)
rstrip(s) ==
    IF s # <<>> /\ s[Len(s)] = " " THEN rstrip(SubSeq(s, 1, Len(s) - 1)) ELSE s

\* str.strip()
strip(s) == rstrip(lstrip(s))

\* dict.get(k, default)
DictGet(d, k, default) == IF k \in DOMAIN d THEN d[k] ELSE default

\* d[k] = v
DictSet(d, k, v) == [x \in (DOMAIN d) \cup {k} |-> IF x = k THEN v ELSE d[x]]

EmptyDict == [x \in {} |-> 0]

\* q[i] = v on a list (i is 1-based here)
ListSet(q, i, v) == [k \in 1..Len(q) |-> IF k = i THEN v ELSE q[k]]

----------------------------------------------------------------------------
(* The guess scorer, main.py:112-137.  A scorer state is the pair of the   *)
(* handler's locals result and target_letters_count, with the loop that    *)
(* produced it; err marks the IndexError of target[i] past the target's    *)
(* end, after which no further step runs.                                  *)

RECURSIVE CountLetters(_, _, _)
\* main.py:115-119
CountLetters(target, k, cnt) ==
    IF k > Len(target) THEN cnt
    ELSE CountLetters(target, k + 1,
                      DictSet(cnt, target[k], DictGet(cnt, target[k], 0) + 1))

ScoreStart(target) ==
    [pass |-> 0, i |-> 0, err |-> FALSE,
     result |-> [k \in 1..WordLen |-> "absent"],
     count |-> CountLetters(target, 1, EmptyDict)]

\* one iteration of the first loop without the decrement: a plausible slip
Pass1StepNoDecrement(st, guess, target, i) ==
    IF i > Len(target) THEN [st EXCEPT !.pass = 1, !.i = i, !.err = TRUE]
    ELSE IF guess[i] = target[i]
         THEN [st EXCEPT !.pass = 1, !.i = i, !.result = ListSet(st.result, i, "correct")]
         ELSE [st EXCEPT !.pass = 1, !.i = i]

\* one iteration of the first loop, main.py:122-125 (i is 1-based here)
Pass1Step(st, guess, target, i) ==
    IF i > Len(target) THEN [st EXCEPT !.pass = 1, !.i = i, !.err = TRUE]
    ELSE IF guess[i] = target[i]
         THEN [st EXCEPT !.pass = 1, !.i = i, !.result = ListSet(st.result, i, "correct"),
                         !.count = DictSet(st.count, guess[i], st.count[guess[i]] - 1)]
         ELSE [st EXCEPT !.pass = 1, !.i = i]

\* one iteration of the second loop, main.py:128-135
Pass2Step(st, guess, i) ==
    IF st.result[i] = "correct" THEN [st EXCEPT !.pass = 2, !.i = i]
    ELSE IF DictGet(st.count, guess[i], 0) > 0
         THEN [st EXCEPT !.pass = 2, !.i = i, !.result = ListSet(st.result, i, "present"),
                         !.count = DictSet(st.count, guess[i], st.count[guess[i]] - 1)]
         ELSE [st EXCEPT !.pass = 2, !.i = i]

RECURSIVE RunPass2(_, _, _)
\* main.py:128-135: the trace extended by the second loop from position i on
RunPass2(trace, guess, i) ==
    IF i > WordLen THEN trace
    ELSE RunPass2(Append(trace, Pass2Step(trace[Len(trace)], guess, i)), guess, i + 1)

RECURSIVE RunSinglePass(_, _, _, _)
\* the naive scorer: exact and presence matches decided in one interleaved loop
RunSinglePass(trace, guess, target, i) ==
    IF i > WordLen THEN trace
    ELSE LET st == Pass1Step(trace[Len(trace)], guess, target, i)
         IN  IF st.err THEN Append(trace, st)
             ELSE RunSinglePass(Append(trace, Pass2Step(st, guess, i)),
                                guess, target, i + 1)

RECURSIVE RunPass1(_, _, _, _)
\* main.py:122-125, then the second loop; an IndexError ends the handler
RunPass1(trace, guess, target, i) ==
    IF i > WordLen THEN RunPass2(trace, guess, 1)
    ELSE LET st == Pass1Step(trace[Len(trace)], guess, target, i)
         IN  IF st.err THEN Append(trace, st)
             ELSE RunPass1(Append(trace, st), guess, target, i + 1)

\* main.py:112-135: every state the scorer goes through, the last one final
ScoreTrace(guess, target) == RunPass1(<<ScoreStart(target)>>, guess, target, 1)

\* values of a request slot that holds no request, and of a step that sent
\* no leaderboard response
NoKey == <<"date", 0>>
NoEntry == [name |-> <<>>, tries |-> 0, won |-> FALSE]

NoReply == [op |-> "none", slot |-> 0, status |-> 0, body |-> <<>>,
            unavailable |-> FALSE, added |-> 0, at |-> 0, before |-> {}]

----------------------------------------------------------------------------
(* Words *)

BUTTER  == <<"B", "U", "T", "T", "E", "R">>
BETTER  == <<"B", "E", "T", "T", "E", "R">>
BUTTED  == <<"B", "U", "T", "T", "E", "D">>
EERIER  == <<"E", "E", "R", "I", "E", "R">>
TTTTTT  == <<"T", "T", "T", "T", "T", "T">>
MIXUPS  == <<"M", "I", "X", "U", "P", "S">>
SAMPLE  == <<"S", "A", "M", "P", "L", "E">>
SIMPLE  == <<"S", "I", "M", "P", "L", "E">>
SERVER  == <<"S", "E", "R", "V", "E", "R">>
NOWORD  == <<"N", "O", "W", "O", "R", "D">>

\* strings a words.json, or a request body, may hold
Pool == { BUTTER,
          <<"b", "e", "t", "t", "e", "r">>,
          <<"C", "A", "T">>,
          <<"b", "u", "t", "t", "e", "sz">> }

RECURSIVE SeqsUpTo(_, _)
\* the sequences over S of length at most n
SeqsUpTo(S, n) ==
    IF n = 0 THEN {<<>>}
    ELSE LET shorter == SeqsUpTo(S, n - 1)
         IN  shorter \cup {Append(q, x) : q \in {r \in shorter : Len(r) = n - 1}, x \in S}

\* what open(WORDS_FILE) and json.load can find: no file, a file that is not
\* JSON, or a JSON list of strings
Sources ==
    {[kind |-> "missing", words |-> <<>>], [kind |-> "corrupt", words |-> <<>>]}
    \cup {[kind |-> "list", words |-> ws] : ws \in SeqsUpTo(Pool, MaxWords)}

Guesses == Pool

----------------------------------------------------------------------------
(* Catalog loading, main.py:37-45 *)

Fallback == <<SAMPLE, SIMPLE, SERVER, BUTTER, BETTER>>

Range(q) == {q[k] : k \in 1..Len(q)}

\* main.py:39-43: the outcome of the try statement.  Only FileNotFoundError
\* is caught; json.load's JSONDecodeError leaves the import, so the process
\* never serves.
LoadWords(src) ==
    CASE src.kind = "missing" -> [ok |-> TRUE, list |-> Fallback]
      [] src.kind = "corrupt" -> [ok |-> FALSE, list |-> <<>>]
      [] OTHER -> [ok |-> TRUE, list |-> [k \in 1..Len(src.words) |-> upper(src.words[k])]]

\* module import: main.py:37-45
Import ==
    /\ proc = "boot"
    /\ LET r == LoadWords(source)
       IN  /\ proc' = IF r.ok THEN "running" ELSE "crashed"
           /\ WORDS_LIST' = r.list
           /\ WORDS_SET' = Range(r.list)
    /\ UNCHANGED <<source, now, resp, drawn>>
    /\ lb' = NoReply
    /\ UNCHANGED boardCore
    /\ UNCHANGED scoreVars

----------------------------------------------------------------------------
(* The clock and the daily selector, main.py:23-26, 62-70 *)

\* the model's clock starts at 2024-01-07 00:00 America/New_York
ClockOrigin == StartOrdinal + 6

\* datetime.now(ZoneInfo("America/New_York")).date(), as its ordinal
Today == ClockOrigin + (now \div TicksPerDay)

\* get_today_key, main.py:23-26: isoformat() is one-to-one on dates
get_today_key == <<"date", Today>>

\* random.Random(seed)._randbelow(n) of CPython 3.11 for the seeds
\* StartOrdinal .. StartOrdinal + 15 (rows) and n = 1 .. 7 (columns)
RandBelowTable ==
    << <<0, 0, 0, 1, 1, 1, 1>>, <<0, 0, 2, 0, 0, 5, 5>>, <<0, 0, 0, 0, 0, 0, 0>>,
       <<0, 0, 0, 0, 0, 0, 0>>, <<0, 0, 0, 0, 0, 0, 0>>, <<0, 0, 0, 1, 1, 1, 1>>,
       <<0, 0, 0, 1, 1, 1, 1>>, <<0, 1, 1, 2, 2, 2, 2>>, <<0, 1, 2, 3, 4, 4, 4>>,
       <<0, 1, 1, 3, 3, 3, 3>>, <<0, 1, 1, 3, 3, 3, 3>>, <<0, 0, 0, 1, 1, 1, 1>>,
       <<0, 0, 0, 1, 1, 1, 1>>, <<0, 0, 0, 1, 1, 1, 1>>, <<0, 1, 1, 3, 3, 3, 3>>,
       <<0, 0, 2, 1, 4, 4, 4>> >>

\* rng = random.Random(seed); rng.choice(seq), main.py:66, 70
SeededChoice(seed, seq) == seq[RandBelowTable[seed - StartOrdinal + 1][Len(seq)] + 1]

\* the selector seeded with the instant instead of the date
get_daily_word_seeded_by_instant ==
    IF WORDS_LIST = <<>> THEN NOWORD
    ELSE SeededChoice(ClockOrigin + now, WORDS_LIST)

\* main.py:62-70
get_daily_word ==
    IF WORDS_LIST = <<>> THEN NOWORD
    ELSE SeededChoice(Today, WORDS_LIST)

\* the clock advances

----------------------------------------------------------------------------
(* Game handlers *)

Response(op, arg, status, body) ==
    [op |-> op, arg |-> arg, day |-> Today, status |-> status, body |-> body]

\* GET /, main.py:72-74
read_root ==
    /\ proc = "running"
    /\ resp' = Response("root", <<>>, 200, [message |-> "67dle API is running"])
    /\ UNCHANGED <<source, proc, WORDS_LIST, WORDS_SET, now, drawn>>
    /\ lb' = NoReply
    /\ UNCHANGED boardCore
    /\ UNCHANGED scoreVars

\* GET /daily-word-check, main.py:86-91
check_daily_word ==
    /\ proc = "running"
    /\ resp' = Response("daily-word-check", <<>>, 200,
                        [day_index |-> Today - StartOrdinal])
    /\ UNCHANGED <<source, proc, WORDS_LIST, WORDS_SET, now, drawn>>
    /\ lb' = NoReply
    /\ UNCHANGED boardCore
    /\ UNCHANGED scoreVars

\* POST /validate, main.py:93-96
validate_word(raw) ==
    /\ proc = "running"
    /\ resp' = Response("validate", raw, 200, [is_valid |-> upper(raw) \in WORDS_SET])
    /\ UNCHANGED <<source, proc, WORDS_LIST, WORDS_SET, now, drawn>>
    /\ lb' = NoReply
    /\ UNCHANGED boardCore
    /\ UNCHANGED scoreVars

\* POST /guess, main.py:98-137; an uncaught IndexError is a 500 response
check_guess(raw) ==
    /\ proc = "running"
    /\ LET guess == upper(raw)
       IN  IF Len(guess) # WordLen
           THEN /\ resp' = Response("guess", raw, 400,
                                    [detail |-> "Word must be 6 letters"])
                /\ drawn' = drawn
           ELSE IF guess \notin WORDS_SET
           THEN /\ resp' = Response("guess", raw, 200,
                                    [result |-> <<>>, is_valid_word |-> FALSE])
                /\ drawn' = drawn
           ELSE LET target == get_daily_word
                    trace  == ScoreTrace(guess, target)
                    final  == trace[Len(trace)]
                IN  /\ drawn' = drawn \cup {<<Today, now, target>>}
                    /\ resp' = IF final.err
                               THEN Response("guess", raw, 500,
                                             [detail |-> "Internal Server Error"])
                               ELSE Response("guess", raw, 200,
                                             [result |-> final.result,
                                              is_valid_word |-> TRUE,
                                              solution |-> target])
    /\ UNCHANGED <<source, proc, WORDS_LIST, WORDS_SET, now>>
    /\ lb' = NoReply
    /\ UNCHANGED boardCore
    /\ UNCHANGED scoreVars

----------------------------------------------------------------------------
(* The leaderboard, main.py:139-181.  The table lives in an external       *)
(* service: one insert or select call is one atomic step of it, and a call *)
(* either answers or raises.                                               *)

\* the requests in flight: two are enough to interleave every pair of steps
Slots == {1, 2}

\* request bodies a client may send (LeaderboardEntry, main.py:57-60)
Bodies ==
    { [name |-> <<" ", "a", "l", " ">>, tries |-> 3, won |-> TRUE],
      [name |-> <<"b", "o">>,           tries |-> 1, won |-> FALSE],
      [name |-> <<"c", "y">>,           tries |-> 1, won |-> TRUE],
      [name |-> <<" ", " ">>,           tries |-> 0, won |-> TRUE] }

\* the bodies of the requests that race
RaceBodies == {b \in Bodies : b.tries = 1}

\* get_supabase, main.py:17-21: a client, or None
get_supabase == IF configured THEN "client" ELSE "None"

\* the sort key with won ascending: non-winners first
KeyLessWonAscending(a, b) ==
    \/ (~a.won /\ b.won)
    \/ (a.won = b.won /\ a.tries < b.tries)

\* key(a) < key(b) for key = lambda x: (not x["won"], x["tries"]),
\* main.py:152, 178; False < True
KeyLess(a, b) ==
    \/ (a.won /\ ~b.won)
    \/ (a.won = b.won /\ a.tries < b.tries)

\* one insertion of a stable sort: x goes after every element not above it
InsertByKey(q, x) ==
    LET above == {k \in 1..Len(q) : KeyLess(x, q[k])}
        at    == IF above = {} THEN Len(q) + 1
                 ELSE CHOOSE k \in above : \A m \in above : k <= m
    IN  SubSeq(q, 1, at - 1) \o <<x>> \o SubSeq(q, at, Len(q))

RECURSIVE SortFrom(_, _, _)
SortFrom(q, k, acc) ==
    IF k > Len(q) THEN acc ELSE SortFrom(q, k + 1, InsertByKey(acc, q[k]))

\* sorted(entries, key=...), main.py:152, 178: Python's sort is stable
sorted(q) == SortFrom(q, 1, <<>>)

\* table("leaderboard").select("*").eq("date_key", key).execute().data
Select(key) == SelectSeq(store, LAMBDA r : r.date_key = key)

\* the read-back keyed by a fresh get_today_key() instead of the local
ReadBackKeyFresh(p) == get_today_key

\* the key of the read-back in add_to_leaderboard, main.py:176: the local
\* today_key of line 160
ReadBackKey(p) == today_key[p]

\* the row of main.py:168-173; the table numbers its rows
NewRow(p) ==
    [id |-> Len(store) + 1, name |-> strip(entry[p].name),
     tries |-> entry[p].tries, won |-> entry[p].won, date_key |-> today_key[p]]

\* a leaderboard response; unavailable, added, at and before are history:
\* whether the store was unconfigured or a call raised, the id of the row the
\* request added (0 for none), the day of the reply, and the rows whose POST
\* had been answered with the day's list before this reply
Reply(op, p, status, body, unavailable, added) ==
    [op |-> op, slot |-> p, status |-> status, body |-> body,
     unavailable |-> unavailable, added |-> added, at |-> Today, before |-> posted]

\* GET /leaderboard, main.py:139-155
get_leaderboard(ok) ==
    /\ LET key == get_today_key
       IN  lb' = IF get_supabase = "None"
                 THEN Reply("get", 0, 200, [entries |-> <<>>, date |-> key,
                                            error |-> "Database not configured"], TRUE, 0)
                 ELSE IF ~ok
                 THEN Reply("get", 0, 200, [entries |-> <<>>, date |-> key,
                                            error |-> "store error"], TRUE, 0)
                 ELSE Reply("get", 0, 200, [entries |-> sorted(Select(key)), date |-> key],
                            FALSE, 0)
    /\ UNCHANGED <<configured, store, pc, entry, today_key, mine, posted>>
    /\ UNCHANGED <<now, sGuess, sTarget, sTrace>>
    /\ UNCHANGED gameVars

\* POST /leaderboard up to the first store call, main.py:157-164
PostBegin(p, body) ==
    /\ pc[p] = "idle"
    /\ IF get_supabase = "None"
       THEN /\ lb' = Reply("post", p, 200, [entries |-> <<>>, date |-> get_today_key,
                                            error |-> "Database not configured"], TRUE, 0)
            /\ UNCHANGED <<pc, entry, today_key>>
       ELSE /\ today_key' = [today_key EXCEPT ![p] = get_today_key]
            /\ entry' = [entry EXCEPT ![p] = body]
            /\ pc' = [pc EXCEPT ![p] = "insert"]
            /\ lb' = NoReply
    /\ UNCHANGED <<configured, store, mine, posted>>
    /\ UNCHANGED <<now, sGuess, sTarget, sTrace>>
    /\ UNCHANGED gameVars

\* the insert call, main.py:166-173, and the except clause, main.py:180-181
PostInsert(p, ok) ==
    /\ pc[p] = "insert"
    /\ entry' = [entry EXCEPT ![p] = NoEntry]
    /\ IF ok
       THEN /\ Len(store) < MaxStore
            /\ store' = Append(store, NewRow(p))
            /\ mine' = [mine EXCEPT ![p] = Len(store) + 1]
            /\ pc' = [pc EXCEPT ![p] = "select"]
            /\ lb' = NoReply
            /\ UNCHANGED today_key
       ELSE /\ lb' = Reply("post", p, 500, [detail |-> "store error"], TRUE, 0)
            /\ pc' = [pc EXCEPT ![p] = "idle"]
            /\ today_key' = [today_key EXCEPT ![p] = NoKey]
            /\ UNCHANGED <<store, mine>>
    /\ UNCHANGED <<configured, posted>>
    /\ UNCHANGED <<now, sGuess, sTarget, sTrace>>
    /\ UNCHANGED gameVars

\* the read-back and the return, main.py:175-179, or the except clause
PostSelect(p, ok) ==
    /\ pc[p] = "select"
    /\ pc' = [pc EXCEPT ![p] = "idle"]
    /\ today_key' = [today_key EXCEPT ![p] = NoKey]
    /\ mine' = [mine EXCEPT ![p] = 0]
    /\ IF ok
       THEN /\ lb' = Reply("post", p, 200,
                           [entries |-> sorted(Select(ReadBackKey(p))),
                            date |-> today_key[p]], FALSE, mine[p])
            /\ posted' = posted \cup {mine[p]}
       ELSE /\ lb' = Reply("post", p, 500, [detail |-> "store error"], TRUE, mine[p])
            /\ posted' = posted
    /\ UNCHANGED <<configured, store, entry>>
    /\ UNCHANGED <<now, sGuess, sTarget, sTrace>>
    /\ UNCHANGED gameVars

\* the clock advances
Tick ==
    /\ now < MaxTick
    /\ now' = now + 1
    /\ lb' = NoReply
    /\ UNCHANGED boardCore
    /\ UNCHANGED gameVars
    /\ UNCHANGED scoreVars

----------------------------------------------------------------------------
(* Specifications *)

GameIdle ==
    /\ source = [kind |-> "missing", words |-> <<>>]
    /\ proc = "running"
    /\ WORDS_LIST = Fallback
    /\ WORDS_SET = Range(Fallback)
    /\ resp = Response("none", <<>>, 0, <<>>)
    /\ drawn = {}

GameInit ==
    /\ source \in Sources
    /\ proc = "boot"
    /\ WORDS_LIST = <<>>
    /\ WORDS_SET = {}
    /\ resp = Response("none", <<>>, 0, <<>>)
    /\ drawn = {}

BoardInit ==
    /\ store = <<>>
    /\ pc = [p \in Slots |-> "idle"]
    /\ entry = [p \in Slots |-> NoEntry]
    /\ today_key = [p \in Slots |-> NoKey]
    /\ mine = [p \in Slots |-> 0]
    /\ lb = NoReply
    /\ posted = {}

ScoreIdle ==
    /\ sGuess = <<>>
    /\ sTarget = <<>>
    /\ sTrace = <<>>

\* the word game: catalog loading, the clock and the game handlers
Init ==
    /\ now = 0
    /\ GameInit
    /\ configured = FALSE
    /\ BoardInit
    /\ ScoreIdle

Next ==
    \/ Import
    \/ Tick
    \/ read_root
    \/ check_daily_word
    \/ \E raw \in Guesses : validate_word(raw)
    \/ \E raw \in Guesses : check_guess(raw)
    \/ \E ok \in BOOLEAN : get_leaderboard(ok)
    \/ \E body \in RaceBodies : PostBegin(1, body)

Spec == Init /\ [][Next]_vars

\* the leaderboard: requests handled one at a time, the store up or down
InitBoard ==
    /\ now = 0
    /\ GameIdle
    /\ configured \in BOOLEAN
    /\ BoardInit
    /\ ScoreIdle

NextBoard ==
    \/ Tick
    \/ \E ok \in BOOLEAN : get_leaderboard(ok)
    \/ \E body \in Bodies : PostBegin(1, body)
    \/ \E ok \in BOOLEAN : PostInsert(1, ok)
    \/ \E ok \in BOOLEAN : PostSelect(1, ok)

SpecBoard == InitBoard /\ [][NextBoard]_vars

\* two POST /leaderboard requests racing over a configured store
InitRace ==
    /\ now = 0
    /\ GameIdle
    /\ configured = TRUE
    /\ BoardInit
    /\ ScoreIdle

NextRace ==
    \/ Tick
    \/ \E p \in Slots, body \in RaceBodies : PostBegin(p, body)
    \/ \E p \in Slots, ok \in BOOLEAN : PostInsert(p, ok)
    \/ \E p \in Slots, ok \in BOOLEAN : PostSelect(p, ok)

SpecRace == InitRace /\ [][NextRace]_vars

\* the scorer alone, on every guess over three letters against every target
\* over two of them that starts with the first, and on the documented pairs
ScoreGuesses == [1..WordLen -> {"A", "B", "C"}]
ScoreTargets == {t \in [1..WordLen -> {"A", "B"}] : t[1] = "A"}
ScoreExamples == {<<BUTTED, BUTTER>>, <<EERIER, BETTER>>, <<TTTTTT, BETTER>>,
                  <<MIXUPS, SIMPLE>>}

\* the scoring part of check_guess applied to the drawn pair, main.py:112-137
Score ==
    /\ sTrace = <<>>
    /\ sTrace' = ScoreTrace(sGuess, sTarget)
    /\ UNCHANGED <<sGuess, sTarget, now>>
    /\ UNCHANGED gameVars
    /\ UNCHANGED boardVars

InitScore ==
    /\ now = 0
    /\ GameIdle
    /\ configured = FALSE
    /\ BoardInit
    /\ \E pair \in (ScoreGuesses \X ScoreTargets) \cup ScoreExamples :
          /\ sGuess = pair[1]
          /\ sTarget = pair[2]
    /\ sTrace = <<>>

NextScore == Score

SpecScore == InitScore /\ [][NextScore]_vars

----------------------------------------------------------------------------
(* Properties of the scorer, checked under SpecScore *)

\* occurrences of letter c in word w
Occ(w, c) == Cardinality({j \in 1..Len(w) : w[j] = c})

Letters(w) == {w[j] : j \in 1..Len(w)}

Scored == sTrace # <<>>
Final == sTrace[Len(sTrace)]

RECURSIVE RefPresent(_, _, _)
\* the reference of the second pass at position i: not an exact match, and
\* the letter's occurrences in the target outnumber those consumed by exact
\* matches and by the present positions to the left of i
RefPresent(g, t, i) ==
    /\ g[i] # t[i]
    /\ Occ(t, g[i])
         - Cardinality({j \in 1..WordLen : g[j] = g[i] /\ g[j] = t[j]})
         - Cardinality({j \in 1..(i - 1) : g[j] = g[i] /\ RefPresent(g, t, j)}) > 0

RefVerdict(g, t) ==
    [i \in 1..WordLen |->
        IF g[i] = t[i] THEN "correct"
        ELSE IF RefPresent(g, t, i) THEN "present" ELSE "absent"]

\* C1: for a 6-letter guess and a 6-letter target the verdict of check_guess
\* is the two-pass reference: position i is correct iff guess[i] = target[i],
\* and a position that is not correct is present iff the remaining count of
\* its letter (target occurrences minus those consumed by correct positions
\* and by earlier present positions) is positive, absent otherwise; the first
\* pass runs over all 6 positions before the second starts; target BUTTER,
\* guess BUTTED gives correct five times, then absent.
C1_VerdictIsTwoPassReference ==
    (Scored /\ Len(sGuess) = WordLen /\ Len(sTarget) = WordLen) =>
        /\ ~Final.err
        /\ \A i \in 1..WordLen : Final.result[i] = RefVerdict(sGuess, sTarget)[i]
        /\ Len(sTrace) = 2 * WordLen + 1
        /\ \A k \in 1..WordLen :
              /\ sTrace[k + 1].pass = 1 /\ sTrace[k + 1].i = k
              /\ sTrace[k + 1 + WordLen].pass = 2 /\ sTrace[k + 1 + WordLen].i = k
        /\ (sGuess = BUTTED /\ sTarget = BUTTER) =>
              Final.result = <<"correct", "correct", "correct", "correct",
                               "correct", "absent">>

\* the scorer has run on guess BUTTED against target BUTTER
C1_Witness == Scored /\ sGuess = BUTTED /\ sTarget = BUTTER

\* positions of the guess holding letter c that the verdict credits
Credited(c) ==
    Cardinality({i \in 1..WordLen :
                   sGuess[i] = c /\ Final.result[i] \in {"correct", "present"}})

\* C2: no letter is double-credited: for every letter c the positions of the
\* guess holding c that are correct or present number min(occurrences of c in
\* the guess, occurrences of c in the target), so never more than the target
\* holds, and no remaining count is below 0 after any step of either pass.
C2_NoDoubleCredit ==
    (Scored /\ Len(sGuess) = WordLen /\ Len(sTarget) = WordLen) =>
        /\ \A c \in Letters(sGuess) \cup Letters(sTarget) :
              /\ Credited(c) <= Occ(sTarget, c)
              /\ Credited(c) = Min(Occ(sGuess, c), Occ(sTarget, c))
        /\ \A k \in 1..Len(sTrace) :
              \A c \in DOMAIN sTrace[k].count : sTrace[k].count[c] >= 0

\* the scorer has run on a guess that repeats a letter more often than the
\* target holds it, and has left one of the repeats absent
C2_Witness ==
    /\ Scored
    /\ sGuess = EERIER /\ sTarget = BETTER
    /\ \E i \in 1..WordLen : sGuess[i] = "E" /\ Final.result[i] = "absent"
    /\ Credited("E") = 2

----------------------------------------------------------------------------
(* Properties of the word game, checked under Spec *)

GuessReplied == resp.op = "guess"
Verdicts == {"correct", "present", "absent"}

\* a response of POST /guess that carries a scored verdict
IsScored(r) ==
    /\ r.status = 200
    /\ r.body.is_valid_word
    /\ Len(r.body.result) = WordLen
    /\ \A i \in 1..WordLen : r.body.result[i] \in Verdicts

\* C3: POST /guess scores a guess only when it is well-formed and a
\* dictionary member: an upper-cased guess that does not have exactly 6
\* characters is rejected with 400 "Word must be 6 letters" whether or not it is
\* in the Catalog; one of 6 characters that is not in the Catalog is answered
\* result = [] with is_valid_word = false, no scored array and no target; a
\* 6-tag verdict with is_valid_word = true is returned if and only if the guess
\* has 6 characters and is in the Catalog.
C3_ScoredIffWellFormedMember ==
    GuessReplied =>
        LET guess == upper(resp.arg)
        IN  /\ Len(guess) # WordLen =>
                  /\ resp.status = 400
                  /\ resp.body = [detail |-> "Word must be 6 letters"]
            /\ (Len(guess) = WordLen /\ guess \notin WORDS_SET) =>
                  /\ resp.status = 200
                  /\ resp.body = [result |-> <<>>, is_valid_word |-> FALSE]
            /\ (Len(guess) = WordLen /\ guess \in WORDS_SET) <=> IsScored(resp)

\* C4: the Daily Selector is deterministic: two calls of get_daily_word made
\* while the date is D return the same Word whatever requests were handled
\* before or between them; the Word is the one the seeded choice picks for D's
\* ordinal from the Catalog in its order; and the call changes no state.
C4_DailyWordInv ==
    /\ \A a \in drawn : \A b \in drawn : a[1] = b[1] => a[3] = b[3]
    /\ \A a \in drawn :
          a[3] = IF WORDS_LIST = <<>> THEN NOWORD ELSE SeededChoice(a[1], WORDS_LIST)

C8_CatalogFallsBack ==
    proc # "boot" =>
        /\ proc = "running"
        /\ WORDS_LIST # <<>>
        /\ (source.kind \in {"missing", "corrupt"} \/ source.words = <<>>) =>
              WORDS_LIST = Fallback
        /\ (source.kind = "list" /\ source.words # <<>>) =>
              WORDS_LIST = [k \in 1..Len(source.words) |-> upper(source.words[k])]

\* C9: whatever the word source contains, every word in the Catalog has
\* exactly 6 characters, so scoring is total: for every Catalog-member guess of
\* length 6, POST /guess finishes with a verdict of exactly 6 tags, each one of
\* correct, present, absent, and never fails on an index past the target's end.
C9_CatalogWordsHaveSixLetters ==
    proc = "running" =>
        /\ \A k \in 1..Len(WORDS_LIST) : Len(WORDS_LIST[k]) = WordLen
        /\ (/\ GuessReplied
            /\ Len(upper(resp.arg)) = WordLen
            /\ upper(resp.arg) \in WORDS_SET) => IsScored(resp)

----------------------------------------------------------------------------
(* Properties of the leaderboard, checked under SpecBoard and SpecRace *)

\* the step just taken answered a leaderboard request with an entry list
ListReplied == lb.op \in {"get", "post"} /\ lb.status = 200

\* the step just taken answered a POST with the day's list
PostSucceeded == lb.op = "post" /\ lb.status = 200 /\ ~lb.unavailable

WonTries(q) == [k \in 1..Len(q) |-> <<q[k].won, q[k].tries>>]

\* C5: every entry list returned by GET /leaderboard and by a successful
\* POST /leaderboard has winners before non-winners and, within one won
\* value, ascending tries; inserting {won:true,tries:3}, {won:false,tries:1},
\* {won:true,tries:1} yields [true,1], [true,3], [false,1].
C5_EntriesSorted ==
    ListReplied =>
        LET e == lb.body.entries
        IN  /\ \A i \in 1..Len(e) : \A j \in 1..Len(e) :
                  i < j => \/ (e[i].won /\ ~e[j].won)
                           \/ (e[i].won = e[j].won /\ e[i].tries <= e[j].tries)
            /\ (/\ ~lb.unavailable
                /\ WonTries(Select(lb.body.date))
                     = << <<TRUE, 3>>, <<FALSE, 1>>, <<TRUE, 1>> >>) =>
                  WonTries(e) = << <<TRUE, 1>>, <<TRUE, 3>>, <<FALSE, 1>> >>

\* a POST has returned the list of a day whose rows were inserted as
\* {won:true,tries:3}, {won:false,tries:1}, {won:true,tries:1}
C5_Witness ==
    /\ PostSucceeded
    /\ WonTries(Select(lb.body.date)) = << <<TRUE, 3>>, <<FALSE, 1>>, <<TRUE, 1>> >>
    /\ Len(lb.body.entries) = 3

\* C6: read-your-write and no lost appends: under any interleaving of
\* concurrent POST /leaderboard requests, a day rollover between insert and
\* read-back included, the list a successful POST returns holds the row this
\* POST inserted and every row of the same DayKey inserted by a POST that had
\* already completed successfully; insert and read-back of one request use
\* one DayKey; and no stored row is ever modified or removed.
C6_ReplyInv ==
    PostSucceeded =>
        LET e   == lb.body.entries
            ids == {e[k].id : k \in 1..Len(e)}
        IN  /\ lb.added \in ids
            /\ \A id \in lb.before :
                  store[id].date_key = store[lb.added].date_key => id \in ids
            /\ store[lb.added].date_key = lb.body.date
            /\ \A k \in 1..Len(e) : e[k] = store[e[k].id] /\ e[k].date_key = lb.body.date

C6_ReadYourWrite ==
    /\ []C6_ReplyInv
    /\ [][/\ Len(store') >= Len(store)
          /\ \A k \in 1..Len(store) : store'[k] = store[k]]_vars

\* a POST whose insert and read-back straddled a day rollover has returned
\* its list, an earlier POST of that day had completed, and the other request
\* is in flight
C6_Witness ==
    /\ PostSucceeded
    /\ lb.body.date # <<"date", lb.at>>
    /\ \E id \in lb.before : id # lb.added /\ store[id].date_key = lb.body.date
    /\ \E p \in Slots : pc[p] # "idle"

\* C7: when the leaderboard store is unavailable (unconfigured, or a store
\* call fails), GET /leaderboard returns an empty entry list with an error
\* field, POST /leaderboard ends in an error response and not in a normal result
\* with an empty list, and in both cases no entry is added to the store.
C7_StoreUnavailable ==
    lb.unavailable =>
        /\ lb.op = "get" =>
              /\ lb.status = 200
              /\ lb.body.entries = <<>>
              /\ "error" \in DOMAIN lb.body
        /\ lb.op = "post" => lb.status = 500
        /\ lb.added = 0

\* C10: every row POST /leaderboard appends is well-formed: its name is
\* trimmed and non-empty, its tries is at least 1, and it is stored under the
\* DayKey of the day the request was made; a request whose name is empty or
\* blank, or whose tries is 0 or negative, adds no row.
C10_RowsWellFormed ==
    \A k \in 1..Len(store) :
        /\ store[k].name = strip(store[k].name)
        /\ store[k].name # <<>>
        /\ store[k].tries >= 1
        /\ store[k].date_key[2] <= Today

====
